---------------------------- MODULE Spec2Model ----------------------------
(***************************************************************************)
(* EfficientDataProcessor (src/src/utils/efficientDataProcessor.ts): an    *)
(* in-memory query engine over a fixed array of vulnerability records.     *)
(* The constructor stores the array and defers buildIndexes to an idle     *)
(* callback or a zero-delay timer; search filters a pre-sorted id array    *)
(* through passesFilters and slices one page out of it.                    *)
(*                                                                         *)
(* Conventions of the model                                                *)
(*  - a JavaScript string is a sequence of one-character strings, so that  *)
(*    toLowerCase, split and the string comparisons are computed;          *)
(*  - a JavaScript number is <<n>>, NaN is <<>>;                           *)
(*  - record ids are the 0-based array positions of the source;            *)
(*  - a Map is a function whose DOMAIN is the set of keys.                 *)
(***************************************************************************)
EXTENDS Integers, Sequences, FiniteSets, TLC

-----------------------------------------------------------------------------
(* Bounds of the model.                                                    *)

MaxRecords == 3

MaxPage == 1

MaxPageSize == 2

MaxElapsed == 1

MaxCalls == 1

-----------------------------------------------------------------------------
(* JavaScript values.                                                      *)

\* The value of a property that is absent (fixDate is optional).
Undefined == <<"undefined">>

\* if (s), s && ..., s || '': undefined and the empty string are falsy.
Truthy(s) == s # Undefined /\ s # <<>>

NaN == <<>>

Num(n) == <<n>>

\* a - b on numbers: NaN when either operand is NaN.
Sub(a, b) == IF a = NaN \/ b = NaN THEN NaN ELSE Num(a[1] - b[1])

\* Array.prototype.sort reads the comparator's result v as: NaN is +0,
\* otherwise only the sign counts.
SortCompare(v) ==
  IF v = NaN THEN 0 ELSE IF v[1] < 0 THEN -1 ELSE IF v[1] > 0 THEN 1 ELSE 0

UpperLetters ==
  <<"A","B","C","D","E","F","G","H","I","J","K","L","M",
    "N","O","P","Q","R","S","T","U","V","W","X","Y","Z">>

LowerLetters ==
  <<"a","b","c","d","e","f","g","h","i","j","k","l","m",
    "n","o","p","q","r","s","t","u","v","w","x","y","z">>

Digits == <<"0","1","2","3","4","5","6","7","8","9">>

IndexOf(seq, c) == CHOOSE k \in 1..Len(seq) : seq[k] = c

Occurs(seq, c) == \E k \in 1..Len(seq) : seq[k] = c

\* String.prototype.toLowerCase
toLowerCase(s) ==
  [k \in 1..Len(s) |->
     IF Occurs(UpperLetters, s[k])
     THEN LowerLetters[IndexOf(UpperLetters, s[k])]
     ELSE s[k]]

\* String.prototype.split(' '): the segments between single space
\* characters, empty segments included; no other character separates.
RECURSIVE SplitFrom(_, _, _)
SplitFrom(s, k, cur) ==
  IF k > Len(s) THEN <<cur>>
  ELSE IF s[k] = " " THEN <<cur>> \o SplitFrom(s, k + 1, <<>>)
  ELSE SplitFrom(s, k + 1, Append(cur, s[k]))

split(s) == SplitFrom(s, 1, <<>>)

\* Array.prototype.join(' ')
RECURSIVE join(_)
join(parts) ==
  IF Len(parts) = 0 THEN <<>>
  ELSE IF Len(parts) = 1 THEN parts[1]
  ELSE parts[1] \o <<" ">> \o join(Tail(parts))

\* Array.prototype.filter(term => term.length > 0)
NonEmptyTerms(parts) == SelectSeq(parts, LAMBDA t : Len(t) > 0)

SeqToSet(seq) == {seq[k] : k \in 1..Len(seq)}


-----------------------------------------------------------------------------
(* String.prototype.localeCompare, as the root collation orders the        *)
(* characters the records use: white space, then punctuation, then digits, *)
(* then letters; letter case only breaks a tie of the whole string, lower  *)
(* case first.                                                             *)

CollationOrder == <<"\t", " ", "-", "/">> \o Digits \o LowerLetters

PrimaryWeight(c) ==
  LET l == toLowerCase(<<c>>)[1]
  IN IF Occurs(CollationOrder, l) THEN IndexOf(CollationOrder, l) ELSE 0

CaseWeight(c) == IF Occurs(UpperLetters, c) THEN 1 ELSE 0

\* Lexicographic comparison of two sequences of integers: -1, 0 or 1.
RECURSIVE LexCompare(_, _)
LexCompare(x, y) ==
  IF Len(x) = 0 /\ Len(y) = 0 THEN 0
  ELSE IF Len(x) = 0 THEN -1
  ELSE IF Len(y) = 0 THEN 1
  ELSE IF x[1] < y[1] THEN -1
  ELSE IF x[1] > y[1] THEN 1
  ELSE LexCompare(Tail(x), Tail(y))

localeCompare(a, b) ==
  LET primary == LexCompare([k \in 1..Len(a) |-> PrimaryWeight(a[k])],
                            [k \in 1..Len(b) |-> PrimaryWeight(b[k])])
  IN IF primary # 0 THEN Num(primary)
     ELSE Num(LexCompare([k \in 1..Len(a) |-> CaseWeight(a[k])],
                         [k \in 1..Len(b) |-> CaseWeight(b[k])]))

-----------------------------------------------------------------------------
(* new Date(s).getTime() for the date-only form YYYY-MM-DD; every other    *)
(* string the records use ('' and 'n/a') is an Invalid Date, whose time is *)
(* NaN.  Time is counted in days since the epoch (the source's             *)
(* milliseconds divided by 86400000, which keeps every comparison).        *)

IsDigit(c) == Occurs(Digits, c)

DigitVal(c) == IndexOf(Digits, c) - 1

DaysFromCivil(y, m, d) ==
  LET yy == IF m <= 2 THEN y - 1 ELSE y
      era == yy \div 400
      yoe == yy - era * 400
      mp == IF m > 2 THEN m - 3 ELSE m + 9
      doy == (153 * mp + 2) \div 5 + d - 1
      doe == yoe * 365 + yoe \div 4 - yoe \div 100 + doy
  IN era * 146097 + doe - 719468

DaysInMonth(y, m) ==
  IF m = 2
  THEN IF (y % 4 = 0 /\ y % 100 # 0) \/ y % 400 = 0 THEN 29 ELSE 28
  ELSE IF m \in {4, 6, 9, 11} THEN 30 ELSE 31

DateGetTime(s) ==
  IF /\ Len(s) = 10
     /\ s[5] = "-" /\ s[8] = "-"
     /\ \A k \in {1, 2, 3, 4, 6, 7, 9, 10} : IsDigit(s[k])
  THEN LET y == DigitVal(s[1]) * 1000 + DigitVal(s[2]) * 100
                 + DigitVal(s[3]) * 10 + DigitVal(s[4])
           m == DigitVal(s[6]) * 10 + DigitVal(s[7])
           d == DigitVal(s[9]) * 10 + DigitVal(s[10])
       IN IF m \in 1..12 /\ d >= 1 /\ d <= DaysInMonth(y, m)
          THEN Num(DaysFromCivil(y, m, d))
          ELSE NaN
  ELSE NaN

\* new Date(x || '').getTime()
DateOf(x) == DateGetTime(IF Truthy(x) THEN x ELSE <<>>)

-----------------------------------------------------------------------------
(* severityOrder[severity] || 0.  severityOrder is an object literal, so   *)
(* the lookup also finds the properties every object inherits from         *)
(* Object.prototype: such a value is a function, it is truthy, so || 0     *)
(* keeps it, and the subtraction that follows turns it into NaN.           *)

critical == <<"c","r","i","t","i","c","a","l">>

high == <<"h","i","g","h">>

medium == <<"m","e","d","i","u","m">>

low == <<"l","o","w">>

severityOrder ==
  [s \in {critical, high, medium, low} |->
     IF s = critical THEN 4 ELSE IF s = high THEN 3
     ELSE IF s = medium THEN 2 ELSE 1]

ObjectPrototypeKeys ==
  { <<"c","o","n","s","t","r","u","c","t","o","r">>,
    <<"t","o","S","t","r","i","n","g">>,
    <<"v","a","l","u","e","O","f">> }

SeverityOrderOf(severity) ==
  IF severity \in DOMAIN severityOrder THEN Num(severityOrder[severity])
  ELSE IF severity \in ObjectPrototypeKeys THEN NaN
  ELSE Num(0)

-----------------------------------------------------------------------------
(* The strings of the inputs.                                              *)

s_empty == << >>

s_CVE1 == <<"C","V","E","-","1">>

s_CVE2 == <<"C","V","E","-","2">>

s_CVE3 == <<"C","V","E","-","3">>

s_cve1 == <<"c","v","e","-","1">>

s_CVE4 == <<"C","V","E","-","4">>

s_nginx == <<"n","g","i","n","x">>

s_Nginx == <<"N","g","i","n","x">>

s_redis == <<"r","e","d","i","s">>

s_web == <<"w","e","b">>

s_api == <<"a","p","i">>

s_SqlInjection == <<"S","Q","L"," ","i","n","j","e","c","t","i","o","n">>

s_xssBug == <<"x","s","s"," ","b","u","g">>

s_sqlInjection2 == <<"s","q","l"," "," ","i","n","j","e","c","t","i","o","n">>

s_injectionTabBug == <<"i","n","j","e","c","t","i","o","n","\t","b","u","g">>

s_bug == <<"b","u","g">>

s_SQL == <<"S","Q","L">>

s_20240115 == <<"2","0","2","4","-","0","1","-","1","5">>

s_20230601 == <<"2","0","2","3","-","0","6","-","0","1">>

s_19700101 == <<"1","9","7","0","-","0","1","-","0","1">>

s_20240301 == <<"2","0","2","4","-","0","3","-","0","1">>

s_na == <<"n","/","a">>

s_ai == <<"a","i">>

s_AI == <<"A","I">>

s_human == <<"h","u","m","a","n">>

s_Critical == <<"C","r","i","t","i","c","a","l">>

s_toString == <<"t","o","S","t","r","i","n","g">>

s_sql == <<"s","q","l">>

s_inj == <<"i","n","j">>

s_cve2Database == <<"c","v","e","-","2"," ","d","a","t","a","b","a","s","e">>

s_spaces == <<" "," ">>

s_injectionSql == <<"i","n","j","e","c","t","i","o","n"," ","S","Q","L">>

-----------------------------------------------------------------------------
(* The records.  A record has the fields the engine reads:                 *)
(* cve, severity, imageName, repoName, description, published, fixDate,    *)
(* kaiStatus.                                                              *)

Rec(cve, severity, imageName, repoName, description, published, fixDate, kaiStatus) ==
  [cve |-> cve, severity |-> severity, imageName |-> imageName,
   repoName |-> repoName, description |-> description,
   published |-> published, fixDate |-> fixDate, kaiStatus |-> kaiStatus]

\* cve, severity, imageName, repoName, description, published, fixDate,
\* kaiStatus
RecordPool ==
  << Rec(s_CVE1, critical, s_nginx, s_web, s_SqlInjection,
        s_20240115, Undefined, s_ai),
    Rec(s_CVE2, low, s_nginx, s_api, s_xssBug,
        s_empty, s_20240301, s_empty),
    Rec(s_CVE3, critical, s_redis, s_web, s_sqlInjection2,
        s_20230601, s_20240301, s_ai),
    Rec(s_cve1, s_Critical, s_Nginx, s_web, s_empty,
        s_19700101, s_20240301, s_AI),
    Rec(s_CVE2, high, s_redis, s_empty, s_injectionTabBug,
        s_20240115, s_20230601, s_human),
    Rec(s_CVE4, medium, s_nginx, s_api, s_bug,
        s_na, s_20240301, s_ai),
    Rec(s_CVE4, s_toString, s_redis, s_web, s_SQL,
        s_20240115, s_na, s_human),
    Rec(s_CVE3, s_empty, s_nginx, s_web, s_SQL,
        s_20240115, s_20240301, s_empty),
    Rec(s_CVE1, high, s_nginx, s_web, Undefined,
        s_20240115, s_20240301, s_ai),
    Rec(s_CVE2, low, s_redis, s_api, s_bug,
        s_20230601, Undefined, Undefined) >>

\* The records that have every field the type declares as a string.  The
\* last two of RecordPool do not: one has no description, one no kaiStatus.
ValidRecords ==
  {r \in 1..Len(RecordPool) :
     /\ RecordPool[r].cve # Undefined
     /\ RecordPool[r].severity # Undefined
     /\ RecordPool[r].imageName # Undefined
     /\ RecordPool[r].repoName # Undefined
     /\ RecordPool[r].description # Undefined
     /\ RecordPool[r].kaiStatus # Undefined}

\* An array holds references to record objects; a reference is the
\* position of the object in RecordPool.  vs[id] of the source.
Vuln(vs, id) == RecordPool[vs[id + 1]]

\* this.vulnerabilities.map((_, index) => index)
AllIndices(vs) == [k \in 1..Len(vs) |-> k - 1]

Ids(vs) == 0..(Len(vs) - 1)

-----------------------------------------------------------------------------
(* buildIndexes: the inverted token index and the four categorical         *)
(* indices.                                                                *)

\* SearchTermsOf with the four toLowerCase calls left out.
SearchTermsOf_CaseSensitive(vuln) ==
  SeqToSet(NonEmptyTerms(split(join(
    << vuln.cve, vuln.imageName, vuln.repoName, vuln.description >>))))

\* SearchTermsOf without the test term.length > 0.
SearchTermsOf_KeepsEmptyTerms(vuln) ==
  SeqToSet(split(join(
    << toLowerCase(vuln.cve), toLowerCase(vuln.imageName),
       toLowerCase(vuln.repoName), toLowerCase(vuln.description) >>)))

\* The non-empty words of the record's lower-cased, space-joined text.
SearchTermsOf(vuln) ==
  SeqToSet(NonEmptyTerms(split(join(
    << toLowerCase(vuln.cve), toLowerCase(vuln.imageName),
       toLowerCase(vuln.repoName), toLowerCase(vuln.description) >>))))

BuildSearchIndex(vs) ==
  [term \in UNION {SearchTermsOf(Vuln(vs, id)) : id \in Ids(vs)} |->
     {id \in Ids(vs) : term \in SearchTermsOf(Vuln(vs, id))}]

BuildSeverityIndex(vs) ==
  [key \in {Vuln(vs, id).severity : id \in Ids(vs)} |->
     {id \in Ids(vs) : Vuln(vs, id).severity = key}]

\* BuildPackageIndex keying each bucket by the lower-cased imageName.
BuildPackageIndex_LowerCasedKeys(vs) ==
  [key \in {toLowerCase(Vuln(vs, id).imageName) : id \in Ids(vs)} |->
     {id \in Ids(vs) : toLowerCase(Vuln(vs, id).imageName) = key}]

BuildPackageIndex(vs) ==
  [key \in {Vuln(vs, id).imageName : id \in Ids(vs)} |->
     {id \in Ids(vs) : Vuln(vs, id).imageName = key}]

BuildRepoIndex(vs) ==
  [key \in {Vuln(vs, id).repoName : id \in Ids(vs)} |->
     {id \in Ids(vs) : Vuln(vs, id).repoName = key}]

BuildKaiStatusIndex(vs) ==
  [key \in {Vuln(vs, id).kaiStatus : id \in Ids(vs)} |->
     {id \in Ids(vs) : Vuln(vs, id).kaiStatus = key}]

-----------------------------------------------------------------------------
(* buildPreSortedArrays: one sorted copy of allIndices per sort key.       *)

SortKeys ==
  << "published-desc", "published-asc", "cve-asc", "cve-desc",
     "severity-desc", "severity-asc", "fixDate-desc", "fixDate-asc",
     "kaiStatus-asc", "kaiStatus-desc" >>

\* What a call of a method on undefined throws (a value no number is).
TypeError == <<"TypeError", "thrown">>

\* String(x) of a string or undefined.
ToStringOf(x) ==
  IF x = Undefined THEN <<"u","n","d","e","f","i","n","e","d">> ELSE x

\* receiver.localeCompare(argument), either of which may be undefined.
LocaleCompareCall(receiver, argument) ==
  IF receiver = Undefined THEN TypeError
  ELSE localeCompare(receiver, ToStringOf(argument))

\* The value the comparator of sortKey computes from the records va and vb
\* of its two ids, or the error it throws.
CompareRecords(sortKey, va, vb) ==
  CASE sortKey = "published-desc" ->
         Sub(DateOf(vb.published), DateOf(va.published))
    [] sortKey = "published-asc" ->
         Sub(DateOf(va.published), DateOf(vb.published))
    [] sortKey = "cve-asc" -> LocaleCompareCall(va.cve, vb.cve)
    [] sortKey = "cve-desc" -> LocaleCompareCall(vb.cve, va.cve)
    [] sortKey = "severity-desc" ->
         Sub(SeverityOrderOf(vb.severity), SeverityOrderOf(va.severity))
    [] sortKey = "severity-asc" ->
         Sub(SeverityOrderOf(va.severity), SeverityOrderOf(vb.severity))
    [] sortKey = "fixDate-desc" ->
         Sub(DateOf(vb.fixDate), DateOf(va.fixDate))
    [] sortKey = "fixDate-asc" ->
         Sub(DateOf(va.fixDate), DateOf(vb.fixDate))
    [] sortKey = "kaiStatus-asc" ->
         LocaleCompareCall(va.kaiStatus, vb.kaiStatus)
    [] sortKey = "kaiStatus-desc" ->
         LocaleCompareCall(vb.kaiStatus, va.kaiStatus)

\* The comparators' values on the records of RecordPool, computed once.
ComparatorTable ==
  [sortKey \in SeqToSet(SortKeys) |->
     [i \in 1..Len(RecordPool) |->
        [j \in 1..Len(RecordPool) |->
           CompareRecords(sortKey, RecordPool[i], RecordPool[j])]]]

\* The value the comparator of sortKey returns for ids a and b.
Comparator(vs, sortKey, a, b) == ComparatorTable[sortKey][vs[a + 1]][vs[b + 1]]

IdPermutations(vs) ==
  {p \in [1..Len(vs) -> Ids(vs)] :
     \A j, k \in 1..Len(vs) : j # k => p[j] # p[k]}

\* Some call the sort can make of the comparator throws.
SortMayThrow(vs, sortKey) ==
  \E a, b \in Ids(vs) : a # b /\ Comparator(vs, sortKey, a, b) = TypeError

\* a may stand immediately before b in the sorted array: the comparator
\* puts a first, or it calls them equal and a is the earlier element.
InOrder(vs, sortKey, a, b) ==
  LET c == SortCompare(Comparator(vs, sortKey, a, b))
  IN c < 0 \/ (c = 0 /\ a < b)

\* A sort that leaves out the ids whose key is not a number.
SortOutcomes_LeavesOutNaN(vs, sortKey) ==
  LET all == IF SortMayThrow(vs, sortKey) THEN IdPermutations(vs)
             ELSE {p \in IdPermutations(vs) :
                     \A k \in 1..(Len(vs) - 1) :
                       InOrder(vs, sortKey, p[k], p[k + 1])}
  IN {SelectSeq(p, LAMBDA id : Comparator(vs, sortKey, id, id) # NaN) :
        p \in all}

(* [...allIndices].sort(comparator).  Array.prototype.sort is stable, and  *)
(* a merge or insertion sort, as the engines implement it, puts two        *)
(* elements next to each other only after the comparator (NaN read as 0)   *)
(* has ordered them.  When the comparator is a consistent ordering there   *)
(* is exactly one such arrangement, the stable sorted order; when it is    *)
(* not (a NaN key compares equal to two keys that differ) the order is     *)
(* implementation-defined and every such arrangement is a possible result. *)
(* A comparator that calls localeCompare on an undefined field throws     *)
(* when the record is its receiver and not when it is its argument; which  *)
(* of the two a record is in a call is the sort's choice, so the sort may  *)
(* throw, and what order it leaves if it does not is its choice too.       *)
SortOutcomes(vs, sortKey) ==
  IF SortMayThrow(vs, sortKey) THEN IdPermutations(vs)
  ELSE {p \in IdPermutations(vs) :
          \A k \in 1..(Len(vs) - 1) : InOrder(vs, sortKey, p[k], p[k + 1])}

\* The Map buildPreSortedArrays fills, from one result per sort call.
PreSortedMap(o) == [k \in SeqToSet(SortKeys) |-> o[IndexOf(SortKeys, k)]]

\* The Map as buildPreSortedArrays leaves it when its sort call number
\* Len(o) + 1 throws: the results of the calls before it.
PartialPreSortedMap(o) ==
  [k \in {SortKeys[i] : i \in 1..Len(o)} |-> o[IndexOf(SortKeys, k)]]

\* vuln.cve.toLowerCase() and the three calls after it: one of them
\* throws on a record of vs.
IndexPhaseThrows(vs) ==
  \E id \in Ids(vs) :
    \/ Vuln(vs, id).cve = Undefined
    \/ Vuln(vs, id).imageName = Undefined
    \/ Vuln(vs, id).repoName = Undefined
    \/ Vuln(vs, id).description = Undefined

-----------------------------------------------------------------------------
(* The state.  Every field of an engine is a function of the instance.     *)

VARIABLES
  vulnerabilities,  \* this.vulnerabilities: the record array given to new
  searchIndex,      \* this.searchIndex: token -> set of ids
  severityIndex,    \* this.severityIndex: severity -> set of ids
  packageIndex,     \* this.packageIndex: imageName -> set of ids
  repoIndex,        \* this.repoIndex: repoName -> set of ids
  kaiStatusIndex,   \* this.kaiStatusIndex: kaiStatus -> set of ids
  preSortedIds,     \* this.preSortedIds: sort key -> array of ids
  calls,            \* the number of calls made so far
  task,             \* the callback buildIndexesAsync has scheduled:
                    \* "idle" (requestIdleCallback), "timer" (setTimeout 0),
                    \* "done" once it has run, "failed" once it has run
                    \* and buildIndexes has thrown
  last              \* the latest call: its arguments and its result

vars ==
  << vulnerabilities, searchIndex, severityIndex, packageIndex, repoIndex,
     kaiStatusIndex, preSortedIds, calls, task, last >>

indexes ==
  << searchIndex, severityIndex, packageIndex, repoIndex, kaiStatusIndex,
     preSortedIds >>

\* new Map()
EmptyMap == << >>

\* map.size
MapSize(map) == Cardinality(DOMAIN map)

\* map.get(key)?.has(id), read as a condition
MapHas(map, key, id) == key \in DOMAIN map /\ id \in map[key]

Instances == DOMAIN task

-----------------------------------------------------------------------------
(* search and its helpers, on engine e.                                    *)

\* passesFilters with the repository test left out.
passesFilters_IgnoresRepo(e, id, searchTerm, severityFilter, packageFilter, repoFilter, kaiStatusFilter) ==
  /\ Truthy(searchTerm) =>
       LET searchLower == toLowerCase(searchTerm)
           searchTerms == NonEmptyTerms(split(searchLower))
       IN IF Len(searchTerms) = 1
          THEN MapHas(searchIndex[e], searchTerms[1], id)
          ELSE \A k \in 1..Len(searchTerms) :
                 MapHas(searchIndex[e], searchTerms[k], id)
  /\ Truthy(severityFilter) => MapHas(severityIndex[e], severityFilter, id)
  /\ Truthy(packageFilter) => MapHas(packageIndex[e], packageFilter, id)
  /\ Truthy(kaiStatusFilter) => MapHas(kaiStatusIndex[e], kaiStatusFilter, id)

\* passesFilters with some() where the code has every().
passesFilters_AnyToken(e, id, searchTerm, severityFilter, packageFilter, repoFilter, kaiStatusFilter) ==
  /\ Truthy(searchTerm) =>
       LET searchLower == toLowerCase(searchTerm)
           searchTerms == NonEmptyTerms(split(searchLower))
       IN IF Len(searchTerms) = 1
          THEN MapHas(searchIndex[e], searchTerms[1], id)
          ELSE \E k \in 1..Len(searchTerms) :
                 MapHas(searchIndex[e], searchTerms[k], id)
  /\ Truthy(severityFilter) => MapHas(severityIndex[e], severityFilter, id)
  /\ Truthy(packageFilter) => MapHas(packageIndex[e], packageFilter, id)
  /\ Truthy(repoFilter) => MapHas(repoIndex[e], repoFilter, id)
  /\ Truthy(kaiStatusFilter) => MapHas(kaiStatusIndex[e], kaiStatusFilter, id)

\* passesFilters looking the term up as it was typed.
passesFilters_TermNotLowered(e, id, searchTerm, severityFilter, packageFilter, repoFilter, kaiStatusFilter) ==
  /\ Truthy(searchTerm) =>
       LET searchLower == searchTerm
           searchTerms == NonEmptyTerms(split(searchLower))
       IN IF Len(searchTerms) = 1
          THEN MapHas(searchIndex[e], searchTerms[1], id)
          ELSE \A k \in 1..Len(searchTerms) :
                 MapHas(searchIndex[e], searchTerms[k], id)
  /\ Truthy(severityFilter) => MapHas(severityIndex[e], severityFilter, id)
  /\ Truthy(packageFilter) => MapHas(packageIndex[e], packageFilter, id)
  /\ Truthy(repoFilter) => MapHas(repoIndex[e], repoFilter, id)
  /\ Truthy(kaiStatusFilter) => MapHas(kaiStatusIndex[e], kaiStatusFilter, id)

\* passesFilters letting a record pass a filter whose value has no bucket.
passesFilters_UnknownFilterIgnored(e, id, searchTerm, severityFilter, packageFilter, repoFilter, kaiStatusFilter) ==
  /\ Truthy(searchTerm) =>
       LET searchLower == toLowerCase(searchTerm)
           searchTerms == NonEmptyTerms(split(searchLower))
       IN IF Len(searchTerms) = 1
          THEN MapHas(searchIndex[e], searchTerms[1], id)
          ELSE \A k \in 1..Len(searchTerms) :
                 MapHas(searchIndex[e], searchTerms[k], id)
  /\ (Truthy(severityFilter) /\ severityFilter \in DOMAIN severityIndex[e])
       => MapHas(severityIndex[e], severityFilter, id)
  /\ (Truthy(packageFilter) /\ packageFilter \in DOMAIN packageIndex[e])
       => MapHas(packageIndex[e], packageFilter, id)
  /\ (Truthy(repoFilter) /\ repoFilter \in DOMAIN repoIndex[e])
       => MapHas(repoIndex[e], repoFilter, id)
  /\ (Truthy(kaiStatusFilter) /\ kaiStatusFilter \in DOMAIN kaiStatusIndex[e])
       => MapHas(kaiStatusIndex[e], kaiStatusFilter, id)

\* passesFilters rejecting every record when the term holds no token.
passesFilters_NoTokenMatchesNothing(e, id, searchTerm, severityFilter, packageFilter, repoFilter, kaiStatusFilter) ==
  /\ Truthy(searchTerm) =>
       LET searchLower == toLowerCase(searchTerm)
           searchTerms == NonEmptyTerms(split(searchLower))
       IN /\ Len(searchTerms) > 0
          /\ \A k \in 1..Len(searchTerms) :
               MapHas(searchIndex[e], searchTerms[k], id)
  /\ Truthy(severityFilter) => MapHas(severityIndex[e], severityFilter, id)
  /\ Truthy(packageFilter) => MapHas(packageIndex[e], packageFilter, id)
  /\ Truthy(repoFilter) => MapHas(repoIndex[e], repoFilter, id)
  /\ Truthy(kaiStatusFilter) => MapHas(kaiStatusIndex[e], kaiStatusFilter, id)

\* passesFilters looking up only the first word of a term of several.
passesFilters_FirstTokenOnly(e, id, searchTerm, severityFilter, packageFilter, repoFilter, kaiStatusFilter) ==
  /\ Truthy(searchTerm) =>
       LET searchLower == toLowerCase(searchTerm)
           searchTerms == NonEmptyTerms(split(searchLower))
       IN IF Len(searchTerms) = 1
          THEN MapHas(searchIndex[e], searchTerms[1], id)
          ELSE \A k \in 1..Len(searchTerms) :
                 k = 1 => MapHas(searchIndex[e], searchTerms[k], id)
  /\ Truthy(severityFilter) => MapHas(severityIndex[e], severityFilter, id)
  /\ Truthy(packageFilter) => MapHas(packageIndex[e], packageFilter, id)
  /\ Truthy(repoFilter) => MapHas(repoIndex[e], repoFilter, id)
  /\ Truthy(kaiStatusFilter) => MapHas(kaiStatusIndex[e], kaiStatusFilter, id)

passesFilters(e, id, searchTerm, severityFilter, packageFilter, repoFilter, kaiStatusFilter) ==
  /\ Truthy(searchTerm) =>
       LET searchLower == toLowerCase(searchTerm)
           searchTerms == NonEmptyTerms(split(searchLower))
       IN IF Len(searchTerms) = 1
          THEN MapHas(searchIndex[e], searchTerms[1], id)
          ELSE \A k \in 1..Len(searchTerms) :
                 MapHas(searchIndex[e], searchTerms[k], id)
  /\ Truthy(severityFilter) => MapHas(severityIndex[e], severityFilter, id)
  /\ Truthy(packageFilter) => MapHas(packageIndex[e], packageFilter, id)
  /\ Truthy(repoFilter) => MapHas(repoIndex[e], repoFilter, id)
  /\ Truthy(kaiStatusFilter) => MapHas(kaiStatusIndex[e], kaiStatusFilter, id)

getMemoryUsage(e) ==
  LET indexSize == MapSize(searchIndex[e]) + MapSize(severityIndex[e])
                   + MapSize(packageIndex[e]) + MapSize(repoIndex[e])
                   + MapSize(kaiStatusIndex[e])
  IN indexSize * 8

\* slice starting over from the first element when start is at or past
\* the end of a non-empty array.
slice_WrapsStart(arr, start, end) ==
  LET len == Len(arr)
      from == IF start < 0 THEN (IF len + start < 0 THEN 0 ELSE len + start)
              ELSE (IF start >= len THEN 0 ELSE start)
      to == IF end < 0 THEN (IF len + end < 0 THEN 0 ELSE len + end)
            ELSE (IF end > len THEN len ELSE end)
  IN IF to <= from THEN << >> ELSE SubSeq(arr, from + 1, to)

\* Array.prototype.slice(start, end)
slice(arr, start, end) ==
  LET len == Len(arr)
      from == IF start < 0 THEN (IF len + start < 0 THEN 0 ELSE len + start)
              ELSE (IF start > len THEN len ELSE start)
      to == IF end < 0 THEN (IF len + end < 0 THEN 0 ELSE len + end)
            ELSE (IF end > len THEN len ELSE end)
  IN IF to <= from THEN << >> ELSE SubSeq(arr, from + 1, to)

\* A fallback that returns the ids from the last to the first.
FallbackSortedIndices_Reversed(vs) ==
  [index \in 1..Len(vs) |-> Len(vs) - index]

\* The fallback order of search.  sortVulnerabilities returns a sorted
\* copy of the records, and .map((_, index) => allIndices[index]) replaces
\* the record at position index by allIndices[index]: the ids come out in
\* array order whatever the sort did.
FallbackSortedIndices(vs) ==
  LET allIndices == AllIndices(vs)
  IN [index \in 1..Len(vs) |-> allIndices[index]]

\* The array search filters: the pre-sorted one, or the fallback.
SortedIdsFor(e, sortField, sortDirection) ==
  LET sortKey == sortField \o "-" \o sortDirection
  IN IF sortKey \in DOMAIN preSortedIds[e]
     THEN preSortedIds[e][sortKey]
     ELSE FallbackSortedIndices(vulnerabilities[e])

\* filterAndPaginate reading page as a page number that starts at 1.
filterAndPaginate_OneBasedPage(e, sortedIndices, q, processingTime) ==
  LET visibleIds ==
        SelectSeq(sortedIndices,
                  LAMBDA id : passesFilters(e, id, q.searchTerm,
                                q.severityFilter, q.packageFilter,
                                q.repoFilter, q.kaiStatusFilter))
      startIndex == (q.page + 1) * q.pageSize
      endIndex == startIndex + q.pageSize
      paginatedIds == slice(visibleIds, startIndex, endIndex)
  IN [ results |-> [k \in 1..Len(paginatedIds) |->
                      vulnerabilities[e][paginatedIds[k] + 1]],
       totalCount |-> Len(visibleIds),
       stats |-> [ totalCount |-> Len(vulnerabilities[e]),
                   filteredCount |-> Len(visibleIds),
                   processingTime |-> processingTime,
                   memoryUsage |-> getMemoryUsage(e) ],
       visibleIds |-> visibleIds,
       paginatedIds |-> paginatedIds ]

\* Both branches of search filter, paginate and report in the same way
\* (the fallback through filterAndPaginate).
filterAndPaginate(e, sortedIndices, q, processingTime) ==
  LET visibleIds ==
        SelectSeq(sortedIndices,
                  LAMBDA id : passesFilters(e, id, q.searchTerm,
                                q.severityFilter, q.packageFilter,
                                q.repoFilter, q.kaiStatusFilter))
      startIndex == q.page * q.pageSize
      endIndex == startIndex + q.pageSize
      paginatedIds == slice(visibleIds, startIndex, endIndex)
  IN [ results |-> [k \in 1..Len(paginatedIds) |->
                      vulnerabilities[e][paginatedIds[k] + 1]],
       totalCount |-> Len(visibleIds),
       stats |-> [ totalCount |-> Len(vulnerabilities[e]),
                   filteredCount |-> Len(visibleIds),
                   processingTime |-> processingTime,
                   memoryUsage |-> getMemoryUsage(e) ],
       visibleIds |-> visibleIds,
       paginatedIds |-> paginatedIds ]

search(e, q, processingTime) ==
  filterAndPaginate(e, SortedIdsFor(e, q.sortField, q.sortDirection), q,
                    processingTime)

-----------------------------------------------------------------------------
(* getUniqueValues, on engine e.                                           *)

\* The UTF-16 code unit of a character the records use.
CodeUnit(c) ==
  CASE c = "\t" -> 9
    [] c = " " -> 32
    [] c = "-" -> 45
    [] c = "/" -> 47
    [] Occurs(Digits, c) -> 47 + IndexOf(Digits, c)
    [] Occurs(UpperLetters, c) -> 64 + IndexOf(UpperLetters, c)
    [] Occurs(LowerLetters, c) -> 96 + IndexOf(LowerLetters, c)

\* x < y on strings: by the code units at the first position where they
\* differ; a proper prefix is less.
CodeUnitLess(x, y) ==
  LET n == IF Len(x) < Len(y) THEN Len(x) ELSE Len(y)
      differ == {k \in 1..n : x[k] # y[k]}
  IN IF differ = {} THEN Len(x) < Len(y)
     ELSE LET k == CHOOSE i \in differ : \A j \in differ : i <= j
          IN CodeUnit(x[k]) < CodeUnit(y[k])

\* The order of Array.prototype.sort() without a comparator: undefined
\* goes last, the other elements compare as strings by code units.
DefaultSortLess(x, y) ==
  IF x = Undefined THEN FALSE
  ELSE IF y = Undefined THEN TRUE
  ELSE CodeUnitLess(x, y)

RECURSIVE DefaultSort(_)
\* arr.sort()
DefaultSort(arr) ==
  IF Len(arr) = 0 THEN << >>
  ELSE LET x == Head(arr)
           rest == DefaultSort(Tail(arr))
       IN SelectSeq(rest, LAMBDA y : DefaultSortLess(y, x))
          \o << x >>
          \o SelectSeq(rest, LAMBDA y : ~DefaultSortLess(y, x))

RECURSIVE FirstOccurrences(_)
\* The elements of values, each where it first occurs.
FirstOccurrences(values) ==
  IF Len(values) = 0 THEN << >>
  ELSE LET front == FirstOccurrences(SubSeq(values, 1, Len(values) - 1))
           x == values[Len(values)]
       IN IF x \in SeqToSet(front) THEN front ELSE Append(front, x)

\* Array.from(map.keys()) of the index by field: a Map iterates its keys
\* in the order they were set, which is the order in which the values of
\* field first occur in the array.
MapKeys(map, vs, field) ==
  SelectSeq(FirstOccurrences([k \in 1..Len(vs) |-> RecordPool[vs[k]][field]]),
            LAMBDA key : key \in DOMAIN map)

\* getUniqueValues without the sort: the keys as the Maps iterate them.
getUniqueValues_Unsorted(e) ==
  [ severities |-> MapKeys(severityIndex[e], vulnerabilities[e], "severity"),
    packages |-> MapKeys(packageIndex[e], vulnerabilities[e], "imageName"),
    repos |-> MapKeys(repoIndex[e], vulnerabilities[e], "repoName"),
    kaiStatuses |->
      MapKeys(kaiStatusIndex[e], vulnerabilities[e], "kaiStatus") ]

getUniqueValues(e) ==
  [ severities |->
      DefaultSort(MapKeys(severityIndex[e], vulnerabilities[e], "severity")),
    packages |->
      DefaultSort(MapKeys(packageIndex[e], vulnerabilities[e], "imageName")),
    repos |->
      DefaultSort(MapKeys(repoIndex[e], vulnerabilities[e], "repoName")),
    kaiStatuses |->
      DefaultSort(MapKeys(kaiStatusIndex[e], vulnerabilities[e],
                          "kaiStatus")) ]

-----------------------------------------------------------------------------
(* The inputs: the record arrays given to the constructor and the          *)
(* arguments given to search.                                              *)

RECURSIVE ArraysOfLength(_)
ArraysOfLength(n) ==
  IF n = 0 THEN { << >> }
  ELSE {Append(vs, r) : vs \in ArraysOfLength(n - 1), r \in ValidRecords}

RecordArrays == UNION {ArraysOfLength(n) : n \in 0..MaxRecords}

RECURSIVE ArraysOver(_, _)
ArraysOver(records, n) ==
  IF n = 0 THEN { << >> }
  ELSE {Append(vs, r) : vs \in ArraysOver(records, n - 1), r \in records}

\* Arrays in which some record lacks a field: over the two such records
\* and the first two of RecordPool.
InvalidArrays ==
  {vs \in UNION {ArraysOver({1, 2} \cup ((1..Len(RecordPool)) \ ValidRecords),
                            n) : n \in 1..MaxRecords} :
     \E k \in 1..Len(vs) : vs[k] \notin ValidRecords}

Terms ==
  { s_empty, s_CVE1, s_sql, s_inj, s_bug, s_SqlInjection, s_injectionSql,
    s_cve2Database, s_spaces }

SeverityFilters == { s_empty, critical, low }

PackageFilters == { s_empty, s_nginx }

RepoFilters == { s_empty, s_web }

KaiStatusFilters == { s_empty, s_ai }

\* The five fields buildPreSortedArrays sorts by, and one it does not.
SortFields ==
  { "published", "cve", "severity", "fixDate", "kaiStatus", "imageName" }

SortDirections == { "asc", "desc" }

ProcessingTimes == 0..MaxElapsed

Query(searchTerm, severityFilter, packageFilter, repoFilter, kaiStatusFilter, page, pageSize, sortField, sortDirection) ==
  [searchTerm |-> searchTerm, severityFilter |-> severityFilter,
   packageFilter |-> packageFilter, repoFilter |-> repoFilter,
   kaiStatusFilter |-> kaiStatusFilter, page |-> page,
   pageSize |-> pageSize, sortField |-> sortField,
   sortDirection |-> sortDirection]

\* The calls explored: every combination of the four filters; every term,
\* alone and with a filter; every sort key, with and without a filter;
\* every page of every page size, under every elapsed time.
FilterQueries ==
  { Query(s_empty, sev, pkg, repo, kai, 0, MaxPageSize, "published", "desc") :
      sev \in SeverityFilters, pkg \in PackageFilters,
      repo \in RepoFilters, kai \in KaiStatusFilters }

TermQueries ==
  { Query(term, sev, s_empty, s_empty, s_empty, 0, MaxPageSize,
          "published", "desc") :
      term \in Terms, sev \in { s_empty, critical } }

SortQueries ==
  { Query(s_empty, sev, s_empty, s_empty, s_empty, 0, MaxPageSize, field,
          dir) :
      sev \in { s_empty, critical }, field \in SortFields,
      dir \in SortDirections }

PageQueries ==
  { Query(s_empty, sev, s_empty, s_empty, s_empty, page, pageSize,
          field, "desc") :
      sev \in { s_empty, critical }, page \in 0..MaxPage,
      pageSize \in 1..MaxPageSize, field \in { "severity" } }

\* <<query, elapsed time>>
SearchCalls ==
  ((FilterQueries \cup TermQueries \cup SortQueries) \X {0})
  \cup (PageQueries \X ProcessingTimes)

-----------------------------------------------------------------------------
(* The constructor has run: it has stored the array and scheduled          *)
(* buildIndexes, with requestIdleCallback where the host has it and with   *)
(* setTimeout(..., 0) elsewhere; the five Maps and preSortedIds are empty. *)

\* What buildIndexes computes from each array the constructor can be
\* given, when the index phase does not throw: the five Maps, and for each
\* call of sort its possible results.
Built ==
  [vs \in RecordArrays \cup InvalidArrays |->
     IF IndexPhaseThrows(vs) THEN [ sorted |-> << >> ]
     ELSE
     [ searchIndex |-> BuildSearchIndex(vs),
       severityIndex |-> BuildSeverityIndex(vs),
       packageIndex |-> BuildPackageIndex(vs),
       repoIndex |-> BuildRepoIndex(vs),
       kaiStatusIndex |-> BuildKaiStatusIndex(vs),
       sorted |-> [k \in 1..Len(SortKeys) |->
                     {o : o \in SortOutcomes(vs, SortKeys[k])}] ]]

\* A constructor that fills the five Maps before it returns and leaves
\* the sorts to the scheduled callback.
InitWith_IndexesInline(instances, arrays) ==
  /\ \E vs \in arrays :
       /\ vulnerabilities = [e \in instances |-> vs]
       /\ searchIndex = [e \in instances |-> Built[vs].searchIndex]
       /\ severityIndex = [e \in instances |-> Built[vs].severityIndex]
       /\ packageIndex = [e \in instances |-> Built[vs].packageIndex]
       /\ repoIndex = [e \in instances |-> Built[vs].repoIndex]
       /\ kaiStatusIndex = [e \in instances |-> Built[vs].kaiStatusIndex]
  /\ preSortedIds = [e \in instances |-> EmptyMap]
  /\ \E scheduled \in {"idle", "timer"} : task = [e \in instances |-> scheduled]
  /\ calls = 0
  /\ last = [engine |-> 0]

InitWith(instances, arrays) ==
  /\ \E vs \in arrays : vulnerabilities = [e \in instances |-> vs]
  /\ searchIndex = [e \in instances |-> EmptyMap]
  /\ severityIndex = [e \in instances |-> EmptyMap]
  /\ packageIndex = [e \in instances |-> EmptyMap]
  /\ repoIndex = [e \in instances |-> EmptyMap]
  /\ kaiStatusIndex = [e \in instances |-> EmptyMap]
  /\ preSortedIds = [e \in instances |-> EmptyMap]
  /\ \E scheduled \in {"idle", "timer"} : task = [e \in instances |-> scheduled]
  /\ calls = 0
  /\ last = [engine |-> 0]

Init == InitWith({1}, RecordArrays)

\* buildIndexes throws on vs: in the index phase, or in a sort.  (Of the
\* two sorts of a field, ascending and descending, the first call that
\* has the record without the field as receiver throws; one of the two
\* comparators has it as receiver in whichever order the sort passes it.)
BuildThrows(vs) ==
  \/ IndexPhaseThrows(vs)
  \/ \E k \in 1..Len(SortKeys) : SortMayThrow(vs, SortKeys[k])

RECURSIVE SortResults(_, _)
\* The results the first n sort calls can have, as sequences of length n.
SortResults(sorted, n) ==
  IF n = 0 THEN { << >> }
  ELSE {Append(o, p) : o \in SortResults(sorted, n - 1), p \in sorted[n]}

\* buildIndexes when it throws.  In the index phase nothing has been
\* assigned: the five Maps it filled are locals.  In sort call number k of
\* buildPreSortedArrays the five Maps have been assigned and the results
\* of the calls before k have been set.
buildIndexesThrows(e) ==
  LET vs == vulnerabilities[e]
      b == Built[vs]
  IN \/ /\ IndexPhaseThrows(vs)
        /\ UNCHANGED indexes
     \/ /\ ~IndexPhaseThrows(vs)
        /\ searchIndex' = [searchIndex EXCEPT ![e] = b.searchIndex]
        /\ severityIndex' = [severityIndex EXCEPT ![e] = b.severityIndex]
        /\ packageIndex' = [packageIndex EXCEPT ![e] = b.packageIndex]
        /\ repoIndex' = [repoIndex EXCEPT ![e] = b.repoIndex]
        /\ kaiStatusIndex' = [kaiStatusIndex EXCEPT ![e] = b.kaiStatusIndex]
        /\ \E k \in 1..Len(SortKeys) :
             /\ SortMayThrow(vs, SortKeys[k])
             /\ \E o \in SortResults(b.sorted, k - 1) :
                  preSortedIds' =
                    [preSortedIds EXCEPT ![e] = PartialPreSortedMap(o)]

\* buildIndexes with a sort whose result varies from one call to the next
\* where the order is implementation-defined.
buildIndexes_OwnOrder(e) ==
  LET vs == vulnerabilities[e]
      b == Built[vs]
  IN /\ ~BuildThrows(vs)
     /\ searchIndex' = [searchIndex EXCEPT ![e] = b.searchIndex]
     /\ severityIndex' = [severityIndex EXCEPT ![e] = b.severityIndex]
     /\ packageIndex' = [packageIndex EXCEPT ![e] = b.packageIndex]
     /\ repoIndex' = [repoIndex EXCEPT ![e] = b.repoIndex]
     /\ kaiStatusIndex' = [kaiStatusIndex EXCEPT ![e] = b.kaiStatusIndex]
     /\ \E o1 \in b.sorted[1], o2 \in b.sorted[2], o3 \in b.sorted[3],
           o4 \in b.sorted[4], o5 \in b.sorted[5], o6 \in b.sorted[6],
           o7 \in b.sorted[7], o8 \in b.sorted[8], o9 \in b.sorted[9],
           o10 \in b.sorted[10] :
          preSortedIds' =
            [preSortedIds EXCEPT ![e] =
               PreSortedMap(<<o1, o2, o3, o4, o5, o6, o7, o8, o9, o10>>)]

\* buildIndexes ending after it has assigned the five Maps, the sorted
\* arrays left for later.
buildIndexes_WithoutSorts(e) ==
  LET vs == vulnerabilities[e]
      b == Built[vs]
  IN /\ ~BuildThrows(vs)
     /\ searchIndex' = [searchIndex EXCEPT ![e] = b.searchIndex]
     /\ severityIndex' = [severityIndex EXCEPT ![e] = b.severityIndex]
     /\ packageIndex' = [packageIndex EXCEPT ![e] = b.packageIndex]
     /\ repoIndex' = [repoIndex EXCEPT ![e] = b.repoIndex]
     /\ kaiStatusIndex' = [kaiStatusIndex EXCEPT ![e] = b.kaiStatusIndex]
     /\ UNCHANGED preSortedIds

\* buildIndexes, buildPreSortedArrays included.  One host sorts one array
\* under one comparator in one way: an engine built from the same array as
\* an engine already built gets the same sorted arrays.
buildIndexes(e) ==
  LET vs == vulnerabilities[e]
      b == Built[vs]
  IN /\ ~BuildThrows(vs)
     /\ searchIndex' = [searchIndex EXCEPT ![e] = b.searchIndex]
     /\ severityIndex' = [severityIndex EXCEPT ![e] = b.severityIndex]
     /\ packageIndex' = [packageIndex EXCEPT ![e] = b.packageIndex]
     /\ repoIndex' = [repoIndex EXCEPT ![e] = b.repoIndex]
     /\ kaiStatusIndex' = [kaiStatusIndex EXCEPT ![e] = b.kaiStatusIndex]
     /\ \E o1 \in b.sorted[1], o2 \in b.sorted[2], o3 \in b.sorted[3],
           o4 \in b.sorted[4], o5 \in b.sorted[5], o6 \in b.sorted[6],
           o7 \in b.sorted[7], o8 \in b.sorted[8], o9 \in b.sorted[9],
           o10 \in b.sorted[10] :
          /\ preSortedIds' =
               [preSortedIds EXCEPT ![e] =
                  PreSortedMap(<<o1, o2, o3, o4, o5, o6, o7, o8, o9, o10>>)]
          /\ \A other \in Instances \ {e} :
               (task[other] = "done" /\ vulnerabilities[other] = vs)
                 => preSortedIds'[e] = preSortedIds[other]

\* The callback buildIndexesAsync scheduled: buildIndexes, then resolve.
\* When buildIndexes throws, the callback ends there.
RunBuild(e) ==
  \/ buildIndexes(e) /\ task' = [task EXCEPT ![e] = "done"]
  \/ buildIndexesThrows(e) /\ task' = [task EXCEPT ![e] = "failed"]

\* The idle callback runs.
IdleCallback(e) ==
  /\ task[e] = "idle"
  /\ RunBuild(e)
  /\ UNCHANGED << vulnerabilities, calls, last >>

\* The zero-delay timer fires.
TimerCallback(e) ==
  /\ task[e] = "timer"
  /\ RunBuild(e)
  /\ UNCHANGED << vulnerabilities, calls, last >>

\* search keeping the order it has computed for a key that has no
\* sequence: the fallback order is stored under the key.
Search_CachesFallback(e) ==
  /\ calls < MaxCalls
  /\ calls' = calls + 1
  /\ \E call \in SearchCalls :
       LET sortKey == call[1].sortField \o "-" \o call[1].sortDirection
       IN /\ last' = [ engine |-> e, op |-> "search",
                       ready |-> (task[e] = "done"), q |-> call[1],
                       r |-> search(e, call[1], call[2]) ]
          /\ preSortedIds' =
               IF sortKey \in DOMAIN preSortedIds[e] THEN preSortedIds
               ELSE [preSortedIds EXCEPT ![e] =
                       (sortKey :> FallbackSortedIndices(vulnerabilities[e]))
                       @@ preSortedIds[e]]
  /\ UNCHANGED << vulnerabilities, searchIndex, severityIndex, packageIndex,
                  repoIndex, kaiStatusIndex, task >>

\* A call of search on engine e; it reads the engine as it is.
Search(e) ==
  /\ calls < MaxCalls
  /\ calls' = calls + 1
  /\ \E call \in SearchCalls :
       last' = [ engine |-> e, op |-> "search", ready |-> (task[e] = "done"),
                 q |-> call[1], r |-> search(e, call[1], call[2]) ]
  /\ UNCHANGED << vulnerabilities, indexes, task >>

\* A call of getUniqueValues on engine e.
GetUniqueValues(e) ==
  /\ calls < MaxCalls
  /\ calls' = calls + 1
  /\ last' = [ engine |-> e, op |-> "getUniqueValues",
               ready |-> (task[e] = "done"), u |-> getUniqueValues(e) ]
  /\ UNCHANGED << vulnerabilities, indexes, task >>

Next ==
  \/ \E e \in Instances : IdleCallback(e)
  \/ \E e \in Instances : TimerCallback(e)
  \/ \E e \in Instances : Search(e)
  \/ \E e \in Instances : GetUniqueValues(e)

Spec == Init /\ [][Next]_vars

\* The host runs a timer that is due: the zero-delay timer, once set,
\* fires.  It owes an idle callback nothing: requestIdleCallback is called
\* without a timeout, and a host that is never idle never invokes it.
Fairness == WF_vars(\E e \in Instances : TimerCallback(e))

SpecFair == Init /\ [][Next]_vars /\ Fairness

\* Two engines constructed from the same array, its records taken in the
\* order of RecordPool.
PairArrays ==
  {vs \in RecordArrays : \A k \in 1..(Len(vs) - 1) : vs[k] < vs[k + 1]}

InitPair == InitWith({1, 2}, PairArrays)

SpecPair == InitPair /\ [][Next]_vars

\* One engine constructed from an array in which a record lacks a field.
InitInvalid == InitWith({1}, InvalidArrays)

SpecInvalid == InitInvalid /\ [][Next]_vars

-----------------------------------------------------------------------------
(* Properties of search, stated on the latest call: last.q holds its       *)
(* arguments, last.r its result, last.ready whether buildIndexes had run   *)
(* when it was made.                                                       *)

Searched == last.engine # 0 /\ last.op = "search"

SearchedBuilt == Searched /\ last.ready

\* The array of the engine the latest call was made on.
SearchedArray == vulnerabilities[last.engine]

\* C1: a search made after the constructor has returned and before the
\* deferred build has run gives the page and the totalCount that the same
\* call gives once the build has run.  (search never waits: it has
\* returned before the build runs.)
C1_SearchBeforeBuildAgreesWithBuilt ==
  (Searched /\ ~last.ready /\ task[last.engine] = "done") =>
    LET after == search(last.engine, last.q, last.r.stats.processingTime)
    IN /\ after.results = last.r.results
       /\ after.totalCount = last.r.totalCount

\* The linear scan: every non-empty filter value equals the record's field.
FieldsEqualFilters(vuln, q) ==
  /\ q.severityFilter # s_empty => vuln.severity = q.severityFilter
  /\ q.packageFilter # s_empty => vuln.imageName = q.packageFilter
  /\ q.repoFilter # s_empty => vuln.repoName = q.repoFilter
  /\ q.kaiStatusFilter # s_empty => vuln.kaiStatus = q.kaiStatusFilter

LinearScan(vs, q) == {id \in Ids(vs) : FieldsEqualFilters(Vuln(vs, id), q)}

\* C2: after the build, with an empty term, totalCount is the number of
\* records whose fields equal every non-empty filter value, on every page
\* and with every page size.
C2_TotalCountIsLinearScanCount ==
  (SearchedBuilt /\ last.q.searchTerm = s_empty) =>
    last.r.totalCount = Cardinality(LinearScan(SearchedArray, last.q))

\* Two filters are set and select some records of the array, not all.
C2_Witness ==
  /\ SearchedBuilt
  /\ last.q.searchTerm = s_empty
  /\ last.q.severityFilter # s_empty
  /\ last.q.repoFilter # s_empty
  /\ last.r.totalCount >= 1
  /\ last.r.totalCount < Len(SearchedArray)

NoFilters(q) ==
  /\ q.severityFilter = s_empty
  /\ q.packageFilter = s_empty
  /\ q.repoFilter = s_empty
  /\ q.kaiStatusFilter = s_empty

\* t is a token of text: it holds no space, and it stands in text between
\* spaces or the ends of text.
IsTokenOf(t, text) ==
  /\ Len(t) > 0
  /\ \A k \in 1..Len(t) : t[k] # " "
  /\ \E a \in 1..Len(text) :
       LET b == a + Len(t) - 1
       IN /\ b <= Len(text)
          /\ SubSeq(text, a, b) = t
          /\ a = 1 \/ text[a - 1] = " "
          /\ b = Len(text) \/ text[b + 1] = " "

TokensOf(text) ==
  {t \in {SubSeq(text, a, b) : a, b \in 1..Len(text)} : IsTokenOf(t, text)}

\* The record's cve, imageName, repoName and description, concatenated and
\* lower-cased.
LowerText(vuln) ==
  toLowerCase(vuln.cve \o <<" ">> \o vuln.imageName \o <<" ">>
              \o vuln.repoName \o <<" ">> \o vuln.description)

\* C3: after the build, with no filter and a term that is one token t, the
\* matched ids are exactly the ids of the records that have the lower-cased
\* t among the tokens of their text; so a term that is only a part of
\* tokens matches nothing.
C3_SingleTokenMatchesItsBucket ==
  (SearchedBuilt /\ NoFilters(last.q)
     /\ TokensOf(last.q.searchTerm) = {last.q.searchTerm}) =>
    SeqToSet(last.r.visibleIds)
      = {id \in Ids(SearchedArray) :
           IsTokenOf(toLowerCase(last.q.searchTerm),
                     LowerText(Vuln(SearchedArray, id)))}

\* The term sql matched some records of the array, not all, one of them a
\* record that spells it SQL.
C3_Witness ==
  /\ SearchedBuilt
  /\ NoFilters(last.q)
  /\ last.q.searchTerm = s_sql
  /\ last.r.totalCount >= 1
  /\ last.r.totalCount < Len(SearchedArray)
  /\ \E k \in 1..Len(last.r.results) :
       RecordPool[last.r.results[k]].description = s_SQL

\* C4: after the build, with a term of two or more tokens, every matched
\* record has every token of the term among its tokens; and when some
\* token is in no record, the page is empty and totalCount is 0.
C4_MultiTokenIsIntersection ==
  (SearchedBuilt
     /\ Cardinality(TokensOf(toLowerCase(last.q.searchTerm))) >= 2) =>
    LET tokens == TokensOf(toLowerCase(last.q.searchTerm))
        has(id, t) == IsTokenOf(t, LowerText(Vuln(SearchedArray, id)))
    IN /\ \A k \in 1..Len(last.r.visibleIds) :
            \A t \in tokens : has(last.r.visibleIds[k], t)
       /\ (\E t \in tokens : \A id \in Ids(SearchedArray) : ~has(id, t))
            => (last.r.results = << >> /\ last.r.totalCount = 0)

\* The term "cve-2 database" on an array that has a CVE-2 record and no
\* record with the word database.
C4_Witness ==
  /\ SearchedBuilt
  /\ last.q.searchTerm = s_cve2Database
  /\ \E id \in Ids(SearchedArray) : Vuln(SearchedArray, id).cve = s_CVE2
  /\ last.r.results = << >>
  /\ last.r.totalCount = 0

-----------------------------------------------------------------------------
(* Properties of the order.  The rules the orders are measured against:    *)
(* a date counts as its timestamp, and as 0 when it is missing or cannot   *)
(* be parsed; a severity counts as its rank in the table, and as 0 when    *)
(* the table does not list it; cve and kaiStatus compare as localeCompare  *)
(* compares them, and so does imageName, a text field no sequence is built *)
(* for.                                                                    *)

TimestampOrZero(x) == IF DateOf(x) = NaN THEN 0 ELSE DateOf(x)[1]

RankOrZero(severity) ==
  IF severity \in DOMAIN severityOrder THEN severityOrder[severity] ELSE 0

SupportedFields == {"published", "cve", "severity", "fixDate", "kaiStatus"}

\* Negative, zero or positive as va comes before, with or after vb in the
\* ascending order of field.
RuleCompare(field, va, vb) ==
  CASE field = "published" ->
         TimestampOrZero(va.published) - TimestampOrZero(vb.published)
    [] field = "fixDate" ->
         TimestampOrZero(va.fixDate) - TimestampOrZero(vb.fixDate)
    [] field = "severity" ->
         RankOrZero(va.severity) - RankOrZero(vb.severity)
    [] field = "cve" -> localeCompare(va.cve, vb.cve)[1]
    [] field = "kaiStatus" -> localeCompare(va.kaiStatus, vb.kaiStatus)[1]
    [] field = "imageName" -> localeCompare(va.imageName, vb.imageName)[1]

RuleCompareIds(vs, field, direction, a, b) ==
  IF direction = "asc" THEN RuleCompare(field, Vuln(vs, a), Vuln(vs, b))
  ELSE RuleCompare(field, Vuln(vs, b), Vuln(vs, a))

\* ids is sorted by field in direction, ties in ingestion order.
SortedByRule(vs, field, direction, ids) ==
  \A j, k \in 1..Len(ids) :
    j < k =>
      LET c == RuleCompareIds(vs, field, direction, ids[j], ids[k])
      IN c < 0 \/ (c = 0 /\ ids[j] < ids[k])

\* ids is monotonic under the rule of field in direction.
MonotonicByRule(vs, field, direction, ids) ==
  \A k \in 1..(Len(ids) - 1) :
    RuleCompareIds(vs, field, direction, ids[k], ids[k + 1]) <= 0

\* In ids, records the rule of field calls equal are in ingestion order.
TiesInIngestionOrder(vs, field, ids) ==
  \A j, k \in 1..Len(ids) :
    (j < k /\ RuleCompare(field, Vuln(vs, ids[j]), Vuln(vs, ids[k])) = 0)
      => ids[j] < ids[k]

BuiltInstances == {e \in Instances : task[e] = "done"}

\* C5: after the build, under a supported sort field and direction, the
\* whole list of matching records is the matching records sorted by the
\* rule of the field in that direction, ties in ingestion order.
C5_MatchesInGlobalSortedOrder ==
  (SearchedBuilt /\ last.q.sortField \in SupportedFields) =>
    SortedByRule(SearchedArray, last.q.sortField, last.q.sortDirection,
                 last.r.visibleIds)

\* The ids of page number page, pages of pageSize records, of the query q.
PageIds(e, q, page, pageSize) ==
  search(e, [q EXCEPT !.page = page, !.pageSize = pageSize], 0).paginatedIds

RECURSIVE PagesUpTo(_, _, _, _)
PagesUpTo(e, q, page, pageSize) ==
  IF page < 0 THEN << >>
  ELSE PagesUpTo(e, q, page - 1, pageSize) \o PageIds(e, q, page, pageSize)

\* C6: after the build, for the query and the page size of the latest
\* call, the pages 0, 1, 2, ... put end to end are the whole ordered list
\* of matching records, each record once, and hold totalCount records; the
\* page the call returned is its page among them.
C6_PagesPartitionTheMatches ==
  SearchedBuilt =>
    LET all == PagesUpTo(last.engine, last.q, Len(SearchedArray),
                         last.q.pageSize)
    IN /\ all = last.r.visibleIds
       /\ Len(all) = last.r.totalCount
       /\ \A j, k \in 1..Len(all) : j # k => all[j] # all[k]
       /\ last.r.paginatedIds
            = PageIds(last.engine, last.q, last.q.page, last.q.pageSize)

\* The second of three pages of one record.
C6_Witness ==
  /\ SearchedBuilt
  /\ last.q.page = 1
  /\ last.q.pageSize = 1
  /\ last.r.totalCount = 3
  /\ last.r.paginatedIds = << last.r.visibleIds[2] >>

\* C7: in the built sequences of the two date fields, with a missing or
\* unparsable date counted as timestamp 0, the ascending sequences are
\* non-decreasing and the descending ones non-increasing.
C7_DateSequencesMonotonicWithEpochZero ==
  \A e \in BuiltInstances :
    \A field \in {"published", "fixDate"}, direction \in SortDirections :
      MonotonicByRule(vulnerabilities[e], field, direction,
                      preSortedIds[e][field \o "-" \o direction])

\* C8: the built severity sequences follow the rank table, every severity
\* the table does not list counted as 0: severity-desc is non-increasing
\* in rank and severity-asc non-decreasing.
C8_SeveritySequencesMonotonicInRank ==
  \A e \in BuiltInstances :
    \A direction \in SortDirections :
      MonotonicByRule(vulnerabilities[e], "severity", direction,
                      preSortedIds[e]["severity" \o "-" \o direction])

\* C9: in each of the ten built sequences, two records that are equal
\* under the rule of the field are in ingestion order.
C9_TiesInIngestionOrder ==
  \A e \in BuiltInstances :
    \A field \in SupportedFields, direction \in SortDirections :
      TiesInIngestionOrder(vulnerabilities[e], field,
                           preSortedIds[e][field \o "-" \o direction])

\* The statistics but the elapsed time, the page and the count.
SameResult(r1, r2) ==
  /\ r1.results = r2.results
  /\ r1.totalCount = r2.totalCount
  /\ r1.stats.totalCount = r2.stats.totalCount
  /\ r1.stats.filteredCount = r2.stats.filteredCount
  /\ r1.stats.memoryUsage = r2.stats.memoryUsage

-----------------------------------------------------------------------------
(* Properties of letter case, of unknown values and of pages out of range. *)

toUpperCase(s) ==
  [k \in 1..Len(s) |->
     IF Occurs(LowerLetters, s[k])
     THEN UpperLetters[IndexOf(LowerLetters, s[k])]
     ELSE s[k]]

\* x and y are different strings that are the same but for letter case.
DiffersOnlyInCase(x, y) == x # y /\ toLowerCase(x) = toLowerCase(y)

\* C11: after the build, the term of the latest call written in lower case
\* and written in upper case gives the page and the totalCount the call
\* returned; and no matched record has a field that differs only in letter
\* case from the filter value given for it.
C11_TermIgnoresCaseFiltersDoNot ==
  SearchedBuilt =>
    /\ \A term \in {toLowerCase(last.q.searchTerm),
                    toUpperCase(last.q.searchTerm)} :
         LET other == search(last.engine,
                             [last.q EXCEPT !.searchTerm = term], 0)
         IN /\ other.results = last.r.results
            /\ other.totalCount = last.r.totalCount
    /\ \A k \in 1..Len(last.r.visibleIds) :
         LET vuln == Vuln(SearchedArray, last.r.visibleIds[k])
         IN /\ ~DiffersOnlyInCase(last.q.severityFilter, vuln.severity)
            /\ ~DiffersOnlyInCase(last.q.packageFilter, vuln.imageName)
            /\ ~DiffersOnlyInCase(last.q.repoFilter, vuln.repoName)
            /\ ~DiffersOnlyInCase(last.q.kaiStatusFilter, vuln.kaiStatus)

\* The term CVE-1 with the severity filter critical, on an array with a
\* record cve-1 of severity Critical: the term matches it, as it matches a
\* record CVE-1 returned, and the filter leaves it out.
C11_Witness ==
  /\ SearchedBuilt
  /\ last.q.searchTerm = s_CVE1
  /\ last.q.severityFilter = critical
  /\ last.r.totalCount >= 1
  /\ \E id \in Ids(SearchedArray) :
       /\ Vuln(SearchedArray, id).cve = s_cve1
       /\ Vuln(SearchedArray, id).severity = s_Critical
       /\ id \notin SeqToSet(last.r.visibleIds)

\* Some filter of q has a value that no record of vs has in that field.
HasUnknownFilterValue(vs, q) ==
  \/ /\ q.severityFilter # s_empty
     /\ \A id \in Ids(vs) : Vuln(vs, id).severity # q.severityFilter
  \/ /\ q.packageFilter # s_empty
     /\ \A id \in Ids(vs) : Vuln(vs, id).imageName # q.packageFilter
  \/ /\ q.repoFilter # s_empty
     /\ \A id \in Ids(vs) : Vuln(vs, id).repoName # q.repoFilter
  \/ /\ q.kaiStatusFilter # s_empty
     /\ \A id \in Ids(vs) : Vuln(vs, id).kaiStatus # q.kaiStatusFilter

\* C12: a call of search with a filter value that no record has in that
\* field returns, whatever its term, sort key and page (get(...)?.has(id)
\* of a missing bucket is undefined, no error): the page it returns is
\* empty and totalCount is 0.
C12_UnknownFilterValueGivesEmptyPage ==
  (Searched /\ HasUnknownFilterValue(SearchedArray, last.q)) =>
    /\ last.r.results = << >>
    /\ last.r.totalCount = 0
    /\ last.r.stats.filteredCount = 0

\* After the build, the package filter nginx on an array of records none
\* of which is of nginx, while the severity filter of the call selects
\* some of them.
C12_Witness ==
  /\ SearchedBuilt
  /\ last.q.packageFilter = s_nginx
  /\ last.q.severityFilter = critical
  /\ Len(SearchedArray) >= 2
  /\ \A id \in Ids(SearchedArray) : Vuln(SearchedArray, id).imageName # s_nginx
  /\ \E id \in Ids(SearchedArray) : Vuln(SearchedArray, id).severity = critical
  /\ last.r.results = << >>

-----------------------------------------------------------------------------
(* Properties of the fallback of search.                                   *)

\* C13: after the build, a call whose sort field has no built sequence
\* returns the matching records sorted by the rule of that field in the
\* direction asked for, ties in ingestion order, and the totalCount that
\* the same term and filters have under a built key.
C13_FallbackSortsByTheFieldRule ==
  (SearchedBuilt
     /\ (last.q.sortField \o "-" \o last.q.sortDirection)
          \notin DOMAIN preSortedIds[last.engine]) =>
    /\ SortedByRule(SearchedArray, last.q.sortField, last.q.sortDirection,
                    last.r.visibleIds)
    /\ last.r.totalCount
         = search(last.engine, [last.q EXCEPT !.sortField = "published"],
                  0).totalCount

\* The engine of the latest call is as it was when the call was made.
SearchedInThisState ==
  Searched /\ last.ready = (task[last.engine] = "done")

\* C14: a call whose page starts at or past the end of the matches
\* (page * pageSize >= totalCount) returns an empty page, and the
\* totalCount and the statistics (the elapsed time apart) that page 0 of
\* the same query has.
C14_PagePastTheEndIsEmpty ==
  (SearchedInThisState
     /\ last.q.page * last.q.pageSize >= last.r.totalCount) =>
    /\ last.r.results = << >>
    /\ LET first == search(last.engine, [last.q EXCEPT !.page = 0], 0)
       IN /\ last.r.totalCount = first.totalCount
          /\ last.r.stats.totalCount = first.stats.totalCount
          /\ last.r.stats.filteredCount = first.stats.filteredCount
          /\ last.r.stats.memoryUsage = first.stats.memoryUsage

\* Page 1 of pages of two records, of a query that two of three records
\* match: the page starts exactly at the end.
C14_Witness ==
  /\ SearchedBuilt
  /\ last.q.page = 1
  /\ last.q.pageSize = 2
  /\ Len(SearchedArray) = 3
  /\ last.r.totalCount = 2
  /\ last.r.stats.filteredCount = 2
  /\ last.r.results = << >>

-----------------------------------------------------------------------------
(* Properties of the construction and of the deferred build.               *)

\* The callback the constructor scheduled for engine e has not run.
Pending(e) == task[e] \in {"idle", "timer"}

\* No bucket of the five indexes and no sorted sequence of engine e.
NothingPopulated(e) ==
  /\ searchIndex[e] = EmptyMap
  /\ severityIndex[e] = EmptyMap
  /\ packageIndex[e] = EmptyMap
  /\ repoIndex[e] = EmptyMap
  /\ kaiStatusIndex[e] = EmptyMap
  /\ preSortedIds[e] = EmptyMap

\* C15: from the return of the constructor until the callback it has
\* scheduled runs, with requestIdleCallback and with setTimeout alike,
\* the engine has no index bucket and no sorted sequence: the build is
\* not run by the constructor.
C15_NothingBuiltUntilTheCallbackRuns ==
  \A e \in Instances : Pending(e) => NothingPopulated(e)

\* A search on the zero-delay-timer path, made after the constructor has
\* returned on an array of records and before the timer has fired, has
\* found the Maps empty.
C15_Witness ==
  /\ Searched
  /\ ~last.ready
  /\ task[last.engine] = "timer"
  /\ Len(SearchedArray) >= 1
  /\ last.r.stats.totalCount >= 1
  /\ last.r.stats.memoryUsage = 0

\* C16: for every engine the build eventually runs, also when the host has
\* requestIdleCallback and is never idle.
C16_BuildEventuallyRuns ==
  <>(\A e \in Instances : ~Pending(e))

\* C17: an array with a record on which indexing cannot proceed (a record
\* without one of the four text fields) is refused by the constructor: the
\* callback scheduled for an engine never is where the error is thrown.
C17_InvalidRecordNeverFailsInTheCallback ==
  \A e \in Instances :
    IndexPhaseThrows(vulnerabilities[e]) => task[e] # "failed"

\* Every sort key has its sequence in engine e.
AllSequencesBuilt(e) == DOMAIN preSortedIds[e] = SeqToSet(SortKeys)

\* C18: an engine whose build has failed, in the index phase or in the
\* sort phase, is not left partly built: it has none of the five indexes
\* and of the ten sequences, or it has them all.
C18_FailedBuildLeavesNoPartialEngine ==
  \A e \in Instances :
    task[e] = "failed" => (NothingPopulated(e) \/ AllSequencesBuilt(e))

-----------------------------------------------------------------------------
(* Properties of the built engine and of getUniqueValues.                  *)

\* The record array, the five indexes and the sorted sequences of e.
EngineState(e) ==
  << vulnerabilities[e], searchIndex[e], severityIndex[e], packageIndex[e],
     repoIndex[e], kaiStatusIndex[e], preSortedIds[e] >>

GotUniqueValuesBuilt ==
  last.engine # 0 /\ last.op = "getUniqueValues" /\ last.ready

\* The values the records of vs have in field.
ObservedValues(vs, field) == {RecordPool[vs[k]][field] : k \in 1..Len(vs)}

\* list goes up strictly in the order of the code units.
StrictlyAscending(list) ==
  \A k \in 1..(Len(list) - 1) : CodeUnitLess(list[k], list[k + 1])

\* list is the values of field among the records of vs, each once, in
\* ascending order.
IsSortedDistinctValues(list, vs, field) ==
  /\ SeqToSet(list) = ObservedValues(vs, field)
  /\ StrictlyAscending(list)

\* C20: after the build, each of the four lists getUniqueValues returns
\* holds exactly the values of its field among the records, each once, in
\* ascending order (the order of strings by code units).
C20_UniqueValuesAreTheSortedObservedValues ==
  GotUniqueValuesBuilt =>
    LET vs == vulnerabilities[last.engine]
    IN /\ IsSortedDistinctValues(last.u.severities, vs, "severity")
       /\ IsSortedDistinctValues(last.u.packages, vs, "imageName")
       /\ IsSortedDistinctValues(last.u.repos, vs, "repoName")
       /\ IsSortedDistinctValues(last.u.kaiStatuses, vs, "kaiStatus")

\* Three records of three severities and two packages, the severity of
\* the first record listed last.
C20_Witness ==
  /\ GotUniqueValuesBuilt
  /\ Len(last.u.severities) = 3
  /\ Len(last.u.packages) = 2
  /\ last.u.severities[3]
       = Vuln(vulnerabilities[last.engine], 0).severity

-----------------------------------------------------------------------------
(* Properties of the built indexes and sequences.                          *)

\* The buckets of map partition the ids of vs, each id in the bucket keyed
\* by the value its record has in field and in no other.
BucketsPartitionIds(map, vs, field) ==
  /\ \A id \in Ids(vs) :
       {key \in DOMAIN map : id \in map[key]} = {Vuln(vs, id)[field]}
  /\ \A key \in DOMAIN map : map[key] \subseteq Ids(vs)

\* C21: after the build, in each of the four categorical indexes every id
\* 0..n-1 is in exactly one bucket, the one keyed by the exact value of the
\* record's field.
C21_CategoricalBucketsPartitionIds ==
  \A e \in BuiltInstances :
    LET vs == vulnerabilities[e]
    IN /\ BucketsPartitionIds(severityIndex[e], vs, "severity")
       /\ BucketsPartitionIds(packageIndex[e], vs, "imageName")
       /\ BucketsPartitionIds(repoIndex[e], vs, "repoName")
       /\ BucketsPartitionIds(kaiStatusIndex[e], vs, "kaiStatus")

\* A built engine of three records, two of package nginx and one of Nginx:
\* two package buckets.
C21_Witness ==
  \E e \in BuiltInstances :
    /\ Len(vulnerabilities[e]) = 3
    /\ DOMAIN packageIndex[e] = {s_nginx, s_Nginx}
    /\ Cardinality(packageIndex[e][s_nginx]) = 2
    /\ Cardinality(DOMAIN severityIndex[e]) >= 2

\* The tokens of the text of each record that has its text fields.
RecordTokens ==
  [r \in ValidRecords |-> {t : t \in TokensOf(LowerText(RecordPool[r]))}]

\* C22: after the build, id i is in the bucket of t in the search index
\* exactly when t is a non-empty token of the lower-cased text of record
\* i (cve, imageName, repoName, description); no bucket has the empty
\* string as key and no bucket is empty.
C22_SearchBucketsHoldExactlyTheTokens ==
  \A e \in BuiltInstances :
    LET vs == vulnerabilities[e]
        tokens == UNION {RecordTokens[vs[k]] : k \in 1..Len(vs)}
    IN /\ \A t \in DOMAIN searchIndex[e] \cup tokens :
            \A id \in Ids(vs) :
              MapHas(searchIndex[e], t, id) <=> t \in RecordTokens[vs[id + 1]]
       /\ s_empty \notin DOMAIN searchIndex[e]
       /\ \A t \in DOMAIN searchIndex[e] :
            searchIndex[e][t] # {} /\ searchIndex[e][t] \subseteq Ids(vs)

\* A built engine with a record whose description has two spaces between
\* its words and a record whose description is empty; the bucket of sql
\* holds two records.
C22_Witness ==
  \E e \in BuiltInstances :
    /\ \E id \in Ids(vulnerabilities[e]) :
         Vuln(vulnerabilities[e], id).description = s_sqlInjection2
    /\ \E id \in Ids(vulnerabilities[e]) :
         Vuln(vulnerabilities[e], id).description = s_empty
    /\ s_sql \in DOMAIN searchIndex[e]
    /\ Cardinality(searchIndex[e][s_sql]) = 2

\* ids holds every id of vs exactly once.
IsPermutationOfIds(ids, vs) ==
  /\ Len(ids) = Len(vs)
  /\ SeqToSet(ids) = Ids(vs)

\* C23: after the build, each of the ten sequences has length n and holds
\* every id 0..n-1 exactly once, also when dates are missing or cannot be
\* parsed.
C23_SequencesArePermutationsOfIds ==
  \A e \in BuiltInstances :
    /\ DOMAIN preSortedIds[e] = SeqToSet(SortKeys)
    /\ \A sortKey \in DOMAIN preSortedIds[e] :
         IsPermutationOfIds(preSortedIds[e][sortKey], vulnerabilities[e])

\* A built engine of three records: one has an empty published date, one
\* a published date that is not a date, one no fixDate.
C23_Witness ==
  \E e \in BuiltInstances :
    LET vs == vulnerabilities[e]
    IN /\ Len(vs) = 3
       /\ \E id \in Ids(vs) : Vuln(vs, id).published = s_empty
       /\ \E id \in Ids(vs) : Vuln(vs, id).published = s_na
       /\ \E id \in Ids(vs) : Vuln(vs, id).fixDate = Undefined
       /\ Len(preSortedIds[e]["published-asc"]) = 3
       /\ Len(preSortedIds[e]["fixDate-desc"]) = 3

-----------------------------------------------------------------------------
(* Properties of the tokens of a term and of a text.                       *)

\* The white space characters: space, tab, newline.
IsWhitespace(c) == c \in {" ", "\t", "\n"}

\* t is a word of text: it holds no white space, and it stands in text
\* between white space characters or the ends of text.
IsWordOf(t, text) ==
  /\ Len(t) > 0
  /\ \A k \in 1..Len(t) : ~IsWhitespace(t[k])
  /\ \E a \in 1..Len(text) :
       LET b == a + Len(t) - 1
       IN /\ b <= Len(text)
          /\ SubSeq(text, a, b) = t
          /\ a = 1 \/ IsWhitespace(text[a - 1])
          /\ b = Len(text) \/ IsWhitespace(text[b + 1])

\* C24: after the build, with no filter and a term that is one word, every
\* record in whose text the word stands between white space of any kind
\* (space, tab, newline) is returned.
C24_WordsAreDelimitedByAnyWhitespace ==
  (SearchedBuilt /\ NoFilters(last.q)
     /\ IsWordOf(last.q.searchTerm, last.q.searchTerm)) =>
    \A id \in Ids(SearchedArray) :
      IsWordOf(toLowerCase(last.q.searchTerm),
               LowerText(Vuln(SearchedArray, id)))
        => id \in SeqToSet(last.r.visibleIds)

-----------------------------------------------------------------------------
(* The search of the page component, which computes the matching ids with  *)
(* sets, read on the indexes of engine e; and passesFilters against it.    *)

\* map.get(key) || new Set()
GetOrEmptySet(map, key) == IF key \in DOMAIN map THEN map[key] ELSE {}

RECURSIVE IntersectBuckets(_, _)
\* The forEach over searchTerms: the bucket of the first term, filtered by
\* the bucket of each term after it.
IntersectBuckets(map, terms) ==
  IF Len(terms) = 1 THEN GetOrEmptySet(map, terms[1])
  ELSE IntersectBuckets(map, SubSeq(terms, 1, Len(terms) - 1))
         \cap GetOrEmptySet(map, terms[Len(terms)])

\* resultIndices after the search term has been handled; the ids of the
\* array stand for null (no constraint yet).
TermResultIndices(e, searchTerm) ==
  IF ~Truthy(searchTerm) THEN Ids(vulnerabilities[e])
  ELSE LET searchLower == toLowerCase(searchTerm)
           exactMatchIndices == GetOrEmptySet(searchIndex[e], searchLower)
           searchTerms == NonEmptyTerms(split(searchLower))
       IN IF exactMatchIndices # {} THEN exactMatchIndices
          ELSE IF Len(searchTerms) > 1
               THEN IntersectBuckets(searchIndex[e], searchTerms)
               ELSE {}

\* resultIndices after the four filters.
ResultIndices(e, q) ==
  LET filtered(indices, filter, index) ==
        IF Truthy(filter) THEN indices \cap GetOrEmptySet(index, filter)
        ELSE indices
  IN filtered(filtered(filtered(filtered(
       TermResultIndices(e, q.searchTerm),
       q.severityFilter, severityIndex[e]),
       q.packageFilter, packageIndex[e]),
       q.repoFilter, repoIndex[e]),
       q.kaiStatusFilter, kaiStatusIndex[e])

\* C25: after the build, for the term and the filters of the latest call,
\* the ids passesFilters accepts are the ids the set-based search computes
\* on the same indexes.
C25_PassesFiltersAgreesWithSetSearch ==
  SearchedBuilt =>
    SeqToSet(last.r.visibleIds) = ResultIndices(last.engine, last.q)

-----------------------------------------------------------------------------
(* Properties of what a call can find between construction and build.      *)

\* Engine e has its five indexes complete and its ten sequences, each
\* holding every id.
WhollyBuilt(e) ==
  LET vs == vulnerabilities[e]
      b == Built[vs]
  IN /\ searchIndex[e] = b.searchIndex
     /\ severityIndex[e] = b.severityIndex
     /\ packageIndex[e] = b.packageIndex
     /\ repoIndex[e] = b.repoIndex
     /\ kaiStatusIndex[e] = b.kaiStatusIndex
     /\ AllSequencesBuilt(e)
     /\ \A sortKey \in DOMAIN preSortedIds[e] :
          IsPermutationOfIds(preSortedIds[e][sortKey], vs)

\* C26: with well-formed records, in every state, which is every point at
\* which search or getUniqueValues can run, an engine is wholly unbuilt
\* (callback pending, nothing populated) or wholly built (callback run,
\* five indexes complete and ten sequences present).
C26_EngineUnbuiltOrWhollyBuilt ==
  \A e \in Instances :
    \/ Pending(e) /\ NothingPopulated(e)
    \/ task[e] = "done" /\ WhollyBuilt(e)

\* getUniqueValues has run on a built engine of three records with two
\* severities or more; the engine has its ten sequences.
C26_Witness ==
  /\ GotUniqueValuesBuilt
  /\ Len(vulnerabilities[last.engine]) = 3
  /\ Len(last.u.severities) >= 2
  /\ WhollyBuilt(last.engine)
  /\ ~NothingPopulated(last.engine)

\* The latest call was made before the build had run.
CalledBeforeBuild == last.engine # 0 /\ ~last.ready

OnlySpaces(s) == Len(s) > 0 /\ \A k \in 1..Len(s) : s[k] = " "

\* C28: after the build, a search whose term is not empty and holds only
\* spaces returns the page and the totalCount of the same query with the
\* empty term.
C28_SpacesOnlyTermIsNoConstraint ==
  (SearchedBuilt /\ OnlySpaces(last.q.searchTerm)) =>
    LET plain == search(last.engine, [last.q EXCEPT !.searchTerm = s_empty], 0)
    IN /\ last.r.results = plain.results
       /\ last.r.totalCount = plain.totalCount

\* The term of two spaces with the severity filter critical, on an array
\* of which some records are critical and some are not.
C28_Witness ==
  /\ SearchedBuilt
  /\ last.q.searchTerm = s_spaces
  /\ last.q.severityFilter = critical
  /\ last.r.totalCount >= 1
  /\ last.r.totalCount < Len(SearchedArray)
  /\ Len(last.r.results) = last.r.totalCount

\* The words of term s in the opposite order, one space between them.
ReversedTerm(s) ==
  LET words == NonEmptyTerms(split(s))
  IN join([k \in 1..Len(words) |-> words[Len(words) + 1 - k]])

\* Terms that have the space-separated tokens of s: its words reversed,
\* s twice, s between added spaces.
SameTokenTerms(s) ==
  { ReversedTerm(s), s \o <<" ">> \o s, <<" ">> \o s \o <<" ", " ">> }

\* C29: after the build, with the filters, sort key and page of the latest
\* call, a term that has the same space-separated tokens as the term of
\* the call (reordered, repeated, with added spaces) returns the page and
\* the totalCount the call returned.
C29_ResultDependsOnTheTokenSetOnly ==
  (SearchedBuilt /\ TokensOf(last.q.searchTerm) # {}) =>
    \A term \in SameTokenTerms(last.q.searchTerm) :
      LET other == search(last.engine, [last.q EXCEPT !.searchTerm = term], 0)
      IN /\ other.results = last.r.results
         /\ other.totalCount = last.r.totalCount

\* The term "injection SQL" matched a record and left out a record that
\* has the token sql and not the token injection.
C29_Witness ==
  /\ SearchedBuilt
  /\ last.q.searchTerm = s_injectionSql
  /\ last.r.totalCount >= 1
  /\ \E id \in Ids(SearchedArray) :
       /\ Vuln(SearchedArray, id).description = s_SQL
       /\ id \notin SeqToSet(last.r.visibleIds)

\* The query with no term and with filter as the only filter, on the
\* dimension of field.
OnlyFilter(field, filter) ==
  Query(s_empty,
        IF field = "severity" THEN filter ELSE s_empty,
        IF field = "imageName" THEN filter ELSE s_empty,
        IF field = "repoName" THEN filter ELSE s_empty,
        IF field = "kaiStatus" THEN filter ELSE s_empty,
        0, MaxPageSize, "published", "desc")

\* Every value of list, given as the only filter on the dimension of
\* field, matches as many records as have it in field, one at least.
ListedValuesSelectTheirRecords(e, list, field) ==
  \A k \in 1..Len(list) :
    LET count == Cardinality({id \in Ids(vulnerabilities[e]) :
                                Vuln(vulnerabilities[e], id)[field] = list[k]})
    IN /\ count >= 1
       /\ search(e, OnlyFilter(field, list[k]), 0).totalCount = count

\* C30: after the build, every value getUniqueValues lists for a
\* dimension, the empty string too, given to search as the only filter,
\* gives a totalCount that is the number of records with that value in the
\* field, and 1 at least.
C30_ListedValuesRoundTripThroughSearch ==
  GotUniqueValuesBuilt =>
    /\ ListedValuesSelectTheirRecords(last.engine, last.u.severities,
                                      "severity")
    /\ ListedValuesSelectTheirRecords(last.engine, last.u.packages,
                                      "imageName")
    /\ ListedValuesSelectTheirRecords(last.engine, last.u.repos, "repoName")
    /\ ListedValuesSelectTheirRecords(last.engine, last.u.kaiStatuses,
                                      "kaiStatus")

=============================================================================
